---- MODULE Spec2Model ----
(***************************************************************************)
(* A model of ahkab/devices.py: the circuit elements (Resistor, Capacitor, *)
(* InductorCoupling, ISource, VSource, EVSource, FISource, HVSource) and   *)
(* the pulse time function.                                                *)
(*                                                                         *)
(* The state is one object under test (dev, with its Python attributes as  *)
(* record fields) and the outcome of the last call made on it (ret: the    *)
(* method, its argument, the value returned and the exception raised).     *)
(* Numbers are exact rationals <<num, den>> in lowest terms, den > 0:      *)
(* Python's float rounding is outside the model.  None is <<>>.            *)
(***************************************************************************)
EXTENDS Integers, Sequences, FiniteSets

VARIABLES dev, ret

vars == <<dev, ret>>

(***************************************************************************)
(* Bounds of the model.                                                    *)
(***************************************************************************)
\* numerators of the numbers written to a Resistor range over -MaxNum..MaxNum
MaxNum == 3
\* denominators of those numbers range over 1..MaxDen
MaxDen == 2
\* pulse evaluation times range over -MaxHalfTime/2 .. MaxHalfTime/2, in halves
MaxHalfTime == 24

(***************************************************************************)
(* Exact rational arithmetic, standing for Python's float operators.       *)
(***************************************************************************)
RECURSIVE GCD(_, _)
GCD(a, b) == IF b = 0 THEN a ELSE GCD(b, a % b)

Abs(n) == IF n < 0 THEN -n ELSE n

\* the rational n/d in lowest terms with a positive denominator (d # 0)
Rat(n, d) ==
    LET g == GCD(Abs(n), Abs(d))
        s == IF d < 0 THEN -1 ELSE 1
    IN  <<(s * n) \div g, (s * d) \div g>>

R(n) == <<n, 1>>

NoneVal == <<>>

RAdd(a, b) == Rat(a[1] * b[2] + b[1] * a[2], a[2] * b[2])
RSub(a, b) == Rat(a[1] * b[2] - b[1] * a[2], a[2] * b[2])
RMul(a, b) == Rat(a[1] * b[1], a[2] * b[2])
\* a / b for b # 0
RDiv(a, b) == Rat(a[1] * b[2], a[2] * b[1])
RLt(a, b) == a[1] * b[2] < b[1] * a[2]
RMax(a, b) == IF RLt(a, b) THEN b ELSE a
IsZero(a) == a[1] = 0

\* Python's int(x): truncation toward zero
PyInt(a) == IF a[1] >= 0 THEN a[1] \div a[2] ELSE -((-a[1]) \div a[2])

\* floor(x)
Floor(a) == a[1] \div a[2]

(***************************************************************************)
(* The outcome of a call: the value returned, or the exception raised.     *)
(***************************************************************************)
Return(v) == [val |-> v, exc |-> "none"]
Raise(e) == [val |-> NoneVal, exc |-> e]

\* the record of the last call: method, argument, outcome
Called(op, arg, out) == [op |-> op, arg |-> arg, val |-> out.val, exc |-> out.exc]

NoDevice == [kind |-> "none"]

\* the node handles of the topology and their external names (nodes_dict)
Nodes == {0, 1, 2}
nodes_dict == [n \in Nodes |-> CASE n = 0 -> "0" [] n = 1 -> "a" [] n = 2 -> "b"]

\* the terminal pairs (n1, n2) the devices are built on
NodePairs == {<<1, 0>>, <<1, 2>>}

\* the port voltages and the times handed to the stamp functions i, g and d
Voltages == {<<-1, 1>>, <<0, 1>>, <<3, 2>>}
StampTimes == {<<0, 1>>, <<1, 2>>}

(***************************************************************************)
(* 1./x                                                                    *)
(***************************************************************************)
Reciprocal(x) == IF IsZero(x) THEN Raise("ZeroDivisionError") ELSE Return(RDiv(R(1), x))

(***************************************************************************)
(* Printing numbers.  A printed number is the decimal it denotes: "%g" is  *)
(* <<sign, m, e>>, the GPrecision-digit mantissa m (10^(GPrecision-1) <= m *)
(* < 10^GPrecision) and the decimal exponent e of the first digit, so the  *)
(* text denotes sign * m * 10^(e - GPrecision + 1); 0 prints as <<0,0,0>>. *)
(* The choice between fixed and scientific notation and the removal of     *)
(* trailing zeros do not change the number denoted and are left out.       *)
(***************************************************************************)
\* the precision "%g" uses when the format names none
GPrecision == 6
\* the most significant digits str() prints of a float
ReprDigits == 17

RECURSIVE Pow10(_)
Pow10(k) == IF k = 0 THEN 1 ELSE 10 * Pow10(k - 1)

\* floor(log10(a / d)) for a > 0, d > 0
RECURSIVE Exp10(_, _)
Exp10(a, d) ==
    IF a >= 10 * d THEN Exp10(a, 10 * d) + 1
    ELSE IF a < d THEN Exp10(10 * a, d) - 1
    ELSE 0

\* a / b rounded to the nearest integer, ties to even
RoundHalfEven(a, b) ==
    LET f == a \div b
        r == a % b
    IN  IF 2 * r > b THEN f + 1
        ELSE IF 2 * r = b THEN f + (f % 2)
        ELSE f

\* "%g" % x for a number x
FormatG(x) ==
    IF IsZero(x) THEN <<0, 0, 0>>
    ELSE LET a == Abs(x[1])
             d == x[2]
             e == Exp10(a, d)
             k == GPrecision - 1 - e
             m == IF k >= 0 THEN RoundHalfEven(a * Pow10(k), d)
                  ELSE RoundHalfEven(a, d * Pow10(-k))
             s == IF x[1] < 0 THEN -1 ELSE 1
         IN  IF m = Pow10(GPrecision) THEN <<s, Pow10(GPrecision - 1), e + 1>>
             ELSE <<s, m, e>>

\* the number a "%g" text denotes, as the netlist grammar reads it back
ParseG(t) ==
    LET k == t[3] - (GPrecision - 1)
    IN  IF k >= 0 THEN Rat(t[1] * t[2] * Pow10(k), 1) ELSE Rat(t[1] * t[2], Pow10(-k))

\* the digits after the decimal point of r / d, at most k of them
RECURSIVE FracDigits(_, _, _)
FracDigits(r, d, k) ==
    IF r = 0 \/ k = 0 THEN <<>>
    ELSE <<(10 * r) \div d>> \o FracDigits((10 * r) % d, d, k - 1)

\* str(x) for a float x: <<sign, integer part, digits after the point>>.
\* The numbers of the model that stand for floats have finite expansions.
PyStr(x) ==
    IF x = NoneVal THEN <<"None">>
    ELSE <<IF x[1] < 0 THEN -1 ELSE 1, Abs(x[1]) \div x[2],
           FracDigits(Abs(x[1]) % x[2], x[2], ReprDigits)>>

RECURSIVE FracValue(_)
FracValue(ds) ==
    IF ds = <<>> THEN R(0) ELSE RDiv(RAdd(R(Head(ds)), FracValue(Tail(ds))), R(10))

\* the number a str() text denotes
ParseStr(t) == RMul(R(t[1]), RAdd(R(t[2]), FracValue(t[3])))

\* a field of a netlist line: a bare word has the key ""
Tok(key, text) == <<key, text>>

HasKey(line, key) == \E k \in DOMAIN line : line[k][1] = key

(***************************************************************************)
(* Resistor                                                                *)
(***************************************************************************)
ResNumbers == {Rat(n, d) : n \in -MaxNum..MaxNum, d \in 1..MaxDen}

\* numbers with more than GPrecision significant digits, and the
\* neighbours of 10^GPrecision
LongNumbers == {<<1234567, 1>>, <<1234568, 1>>, <<999999, 1>>, <<1000000, 1>>}

\* Resistor.__init__: _value is stored, then _g = 1./value; a raise leaves no object
Resistor_init(part_id, n1, n2, value) ==
    LET g == Reciprocal(value)
    IN  IF g.exc # "none" THEN [obj |-> NoDevice, out |-> g]
        ELSE [obj |-> [kind |-> "Resistor", part_id |-> part_id, _value |-> value,
                       _g |-> g.val, is_nonlinear |-> FALSE, is_symbolic |-> TRUE,
                       n1 |-> n1, n2 |-> n2],
              out |-> Return(NoneVal)]

\* a value setter that replaces a zero by the old value instead of raising
Resistor_set_value_clamped(self, value) ==
    IF IsZero(value) THEN [obj |-> self, out |-> Return(NoneVal)]
    ELSE [obj |-> [self EXCEPT !._value = value, !._g = Reciprocal(value).val],
          out |-> Return(NoneVal)]

\* a value setter that forgets to recompute _g
Resistor_set_value_stale(self, value) ==
    [obj |-> [self EXCEPT !._value = value],
     out |-> IF IsZero(value) THEN Raise("ZeroDivisionError") ELSE Return(NoneVal)]

\* Resistor.value setter: self._value = value; self._g = 1./value
Resistor_set_value(self, value) ==
    LET s1 == [self EXCEPT !._value = value]
        g == Reciprocal(value)
    IN  IF g.exc # "none" THEN [obj |-> s1, out |-> g]
        ELSE [obj |-> [s1 EXCEPT !._g = g.val], out |-> Return(NoneVal)]

\* Resistor.g setter: self._g = g; self._value = 1./g
Resistor_set_g(self, g) ==
    LET s1 == [self EXCEPT !._g = g]
        v == Reciprocal(g)
    IN  IF v.exc # "none" THEN [obj |-> s1, out |-> v]
        ELSE [obj |-> [s1 EXCEPT !._value = v.val], out |-> Return(NoneVal)]

\* Resistor.g getter
Resistor_g(self) == [obj |-> self, out |-> Return(self._g)]

\* Resistor.value getter
Resistor_value(self) == [obj |-> self, out |-> Return(self._value)]

\* Resistor.i(v, time)
Resistor_i(self, v, time) == [obj |-> self, out |-> Return(R(0))]

ConstructResistor ==
    /\ dev.kind = "none"
    /\ \E n \in NodePairs, value \in ResNumbers \cup LongNumbers :
         LET c == Resistor_init("R1", n[1], n[2], value)
         IN  /\ dev' = c.obj
             /\ ret' = Called("Resistor.__init__", value, c.out)

WriteResistorValue ==
    /\ dev.kind = "Resistor"
    /\ \E value \in ResNumbers :
         LET c == Resistor_set_value(dev, value)
         IN  /\ dev' = c.obj
             /\ ret' = Called("Resistor.value.setter", value, c.out)

WriteResistorG ==
    /\ dev.kind = "Resistor"
    /\ \E g \in ResNumbers :
         LET c == Resistor_set_g(dev, g)
         IN  /\ dev' = c.obj
             /\ ret' = Called("Resistor.g.setter", g, c.out)

ReadResistorG ==
    /\ dev.kind = "Resistor"
    /\ LET c == Resistor_g(dev)
       IN  /\ dev' = c.obj
           /\ ret' = Called("Resistor.g", NoneVal, c.out)

ReadResistorValue ==
    /\ dev.kind = "Resistor"
    /\ LET c == Resistor_value(dev)
       IN  /\ dev' = c.obj
           /\ ret' = Called("Resistor.value", NoneVal, c.out)

CallResistorI ==
    /\ dev.kind = "Resistor"
    /\ \E v \in Voltages, time \in StampTimes :
         LET c == Resistor_i(dev, v, time)
         IN  /\ dev' = c.obj
             /\ ret' = Called("Resistor.i", <<v, time>>, c.out)

(***************************************************************************)
(* Capacitor                                                               *)
(***************************************************************************)
CapValues == {<<1, 1>>, <<1, 2>>, <<3, 1>>}
CapICs == {NoneVal, <<0, 1>>, <<2, 1>>}

\* Capacitor.__init__
Capacitor_init(part_id, n1, n2, value, ic) ==
    [obj |-> [kind |-> "Capacitor", part_id |-> part_id, value |-> value,
              n1 |-> n1, n2 |-> n2, ic |-> ic,
              is_nonlinear |-> FALSE, is_symbolic |-> TRUE],
     out |-> Return(NoneVal)]

\* Capacitor.g(v, time)
Capacitor_g(self, v, time) == [obj |-> self, out |-> Return(R(0))]

\* Capacitor.i(v, time)
Capacitor_i(self, v, time) == [obj |-> self, out |-> Return(R(0))]

\* a charge derivative that scales with the port voltage and overwrites ic
Capacitor_d_charge(self, v, time) ==
    [obj |-> [self EXCEPT !.ic = v], out |-> Return(RMul(self.value, v))]

\* Capacitor.d(v, time)
Capacitor_d(self, v, time) == [obj |-> self, out |-> Return(self.value)]

ConstructCapacitor ==
    /\ dev.kind = "none"
    /\ \E n \in NodePairs, value \in CapValues, ic \in CapICs :
         LET c == Capacitor_init("C1", n[1], n[2], value, ic)
         IN  /\ dev' = c.obj
             /\ ret' = Called("Capacitor.__init__", <<value, ic>>, c.out)

CallCapacitorG ==
    /\ dev.kind = "Capacitor"
    /\ \E v \in Voltages, time \in StampTimes :
         LET c == Capacitor_g(dev, v, time)
         IN  /\ dev' = c.obj
             /\ ret' = Called("Capacitor.g", <<v, time>>, c.out)

CallCapacitorI ==
    /\ dev.kind = "Capacitor"
    /\ \E v \in Voltages, time \in StampTimes :
         LET c == Capacitor_i(dev, v, time)
         IN  /\ dev' = c.obj
             /\ ret' = Called("Capacitor.i", <<v, time>>, c.out)

CallCapacitorD ==
    /\ dev.kind = "Capacitor"
    /\ \E v \in Voltages, time \in StampTimes :
         LET c == Capacitor_d(dev, v, time)
         IN  /\ dev' = c.obj
             /\ ret' = Called("Capacitor.d", <<v, time>>, c.out)

(***************************************************************************)
(* InductorCoupling.  Identifiers are sequences of characters, so that     *)
(* str.upper() is computed character by character.                         *)
(***************************************************************************)
UpperChar(c) ==
    CASE c = "a" -> "A" [] c = "b" -> "B" [] c = "c" -> "C" [] c = "l" -> "L"
      [] OTHER -> c

\* str.upper()
Upper(s) == [k \in DOMAIN s |-> UpperChar(s[k])]

InductorIds == {<<"L", "a">>, <<"l", "A">>, <<"L", "b">>, <<"L", "c">>}

\* InductorCoupling.__init__
InductorCoupling_init(part_id, L1, L2, K, M) ==
    [obj |-> [kind |-> "InductorCoupling", part_id |-> part_id, L1 |-> L1,
              L2 |-> L2, M |-> M, K |-> K,
              is_nonlinear |-> FALSE, is_symbolic |-> TRUE],
     out |-> Return(NoneVal)]

\* a lookup that compares the identifiers as written, case included
get_other_inductor_exact(self, Lselected) ==
    LET Lret == IF Lselected = self.L1 THEN self.L2
                ELSE IF Lselected = self.L2 THEN self.L1
                ELSE NoneVal
    IN  [obj |-> self,
         out |-> IF Lret = NoneVal THEN Raise("Exception: Mutual inductors bug.")
                 ELSE Return(Lret)]

\* InductorCoupling.get_other_inductor(Lselected)
get_other_inductor(self, Lselected) ==
    LET Lret == IF Upper(Lselected) = Upper(self.L1) THEN self.L2
                ELSE IF Upper(Lselected) = Upper(self.L2) THEN self.L1
                ELSE NoneVal
    IN  [obj |-> self,
         out |-> IF Lret = NoneVal THEN Raise("Exception: Mutual inductors bug.")
                 ELSE Return(Lret)]

ConstructInductorCoupling ==
    /\ dev.kind = "none"
    /\ \E L1 \in InductorIds, L2 \in InductorIds :
         LET c == InductorCoupling_init("K1", L1, L2, <<1, 2>>, <<1, 1>>)
         IN  /\ dev' = c.obj
             /\ ret' = Called("InductorCoupling.__init__", <<L1, L2>>, c.out)

CallGetOtherInductor ==
    /\ dev.kind = "InductorCoupling"
    /\ \E Lselected \in InductorIds :
         LET c == get_other_inductor(dev, Lselected)
         IN  /\ dev' = c.obj
             /\ ret' = Called("get_other_inductor", Lselected, c.out)

(***************************************************************************)
(* pulse                                                                   *)
(***************************************************************************)
\* the keyword arguments the pulses are built from; the first is
\* (v1=0, v2=5, td=0, tr=1, tf=1, pw=2, per=10)
PulseKwargs ==
    { [v1 |-> R(0), v2 |-> R(5), td |-> R(0), tr |-> R(1), tf |-> R(1), pw |-> R(2), per |-> R(10)],
      [v1 |-> R(1), v2 |-> R(5), td |-> R(-1), tr |-> R(2), tf |-> R(1), pw |-> R(2), per |-> R(10)],
      [v1 |-> R(0), v2 |-> R(3), td |-> R(1), tr |-> <<1, 2>>, tf |-> <<3, 2>>, pw |-> R(1), per |-> R(6)],
      [v1 |-> R(-1), v2 |-> R(2), td |-> <<1, 2>>, tr |-> R(0), tf |-> R(2), pw |-> R(1), per |-> R(4)],
      [v1 |-> R(2), v2 |-> R(0), td |-> R(0), tr |-> R(1), tf |-> R(0), pw |-> R(3), per |-> R(5)] }

\* the times value() is called with: the halves in -MaxHalfTime/2 .. MaxHalfTime/2
PulseTimes == {Rat(h, 2) : h \in -MaxHalfTime..MaxHalfTime}

\* pulse.__init__(v1, v2, td, tr, pw, tf, per), the parameters in the
\* order of the signature
pulse_init(v1, v2, td, tr, pw, tf, per) ==
    [obj |-> [kind |-> "pulse", v1 |-> v1, v2 |-> v2, td |-> RMax(td, R(0)),
              per |-> per, tr |-> tr, tf |-> tf, pw |-> pw, _type |-> "V"],
     out |-> Return(NoneVal)]

\* the first statement of pulse.value: time - per * int(time / per)
pulse_wrap(self, time) ==
    RSub(time, RMul(self.per, R(PyInt(RDiv(time, self.per)))))

\* the segments of pulse.value with the plateau width and the fall time exchanged
pulse_segments_swapped(self, time) ==
    IF RLt(time, self.td) THEN self.v1
    ELSE IF RLt(time, RAdd(self.td, self.tr))
      THEN RAdd(self.v1, RMul(RDiv(RSub(self.v2, self.v1), self.tr), RSub(time, self.td)))
    ELSE IF RLt(time, RAdd(RAdd(self.td, self.tr), self.tf)) THEN self.v2
    ELSE IF RLt(time, RAdd(RAdd(RAdd(self.td, self.tr), self.tf), self.pw))
      THEN RAdd(self.v2, RMul(RDiv(RSub(self.v1, self.v2), self.pw),
                              RSub(time, RAdd(RAdd(self.td, self.tr), self.tf))))
    ELSE self.v1

\* the if/elif chain of pulse.value, on the wrapped time
pulse_segments(self, time) ==
    IF RLt(time, self.td) THEN self.v1
    ELSE IF RLt(time, RAdd(self.td, self.tr))
      THEN RAdd(self.v1, RMul(RDiv(RSub(self.v2, self.v1), self.tr), RSub(time, self.td)))
    ELSE IF RLt(time, RAdd(RAdd(self.td, self.tr), self.pw)) THEN self.v2
    ELSE IF RLt(time, RAdd(RAdd(RAdd(self.td, self.tr), self.pw), self.tf))
      THEN RAdd(self.v2, RMul(RDiv(RSub(self.v1, self.v2), self.tf),
                              RSub(time, RAdd(RAdd(self.td, self.tr), self.pw))))
    ELSE self.v1

\* an evaluation that keeps the wrapped time in the object, as its delay
pulse_value_storing(self, time) ==
    [obj |-> IF time = NoneVal \/ IsZero(self.per) THEN self
             ELSE [self EXCEPT !.td = pulse_wrap(self, time)],
     out |-> IF time = NoneVal THEN Raise("TypeError")
             ELSE IF IsZero(self.per) THEN Raise("ZeroDivisionError")
             ELSE Return(pulse_segments(self, pulse_wrap(self, time)))]

\* pulse.value(time); a time of None cannot be divided, a period of 0
\* cannot divide
pulse_value(self, time) ==
    [obj |-> self,
     out |-> IF time = NoneVal THEN Raise("TypeError")
             ELSE IF IsZero(self.per) THEN Raise("ZeroDivisionError")
             ELSE Return(pulse_segments(self, pulse_wrap(self, time)))]

ConstructPulse ==
    /\ dev.kind = "none"
    /\ \E kw \in PulseKwargs :
         LET c == pulse_init(kw.v1, kw.v2, kw.td, kw.tr, kw.pw, kw.tf, kw.per)
         IN  /\ dev' = c.obj
             /\ ret' = Called("pulse.__init__", kw, c.out)

CallPulseValue ==
    /\ dev.kind = "pulse"
    /\ \E time \in PulseTimes :
         LET c == pulse_value(dev, time)
         IN  /\ dev' = c.obj
             /\ ret' = Called("pulse.value", time, c.out)

(***************************************************************************)
(* math.exp and math.sin.  A number built from exponentials is the set of  *)
(* the terms <<x, c>> of a sum of c * e^x, one term for an exponent x and   *)
(* no term with c = 0; the term with x = 0 is its rational part.           *)
(***************************************************************************)
EConst(c) == IF IsZero(c) THEN {} ELSE {<<R(0), c>>}

\* math.exp(x); math.exp(0) is 1
math_exp(x) == {<<x, R(1)>>}

ECoef(a, x) == IF \E t \in a : t[1] = x THEN (CHOOSE t \in a : t[1] = x)[2] ELSE R(0)

EAdd(a, b) ==
    { t \in { <<x, RAdd(ECoef(a, x), ECoef(b, x))>> : x \in {s[1] : s \in a \cup b} } :
        ~IsZero(t[2]) }

EScale(k, a) == IF IsZero(k) THEN {} ELSE { <<t[1], RMul(k, t[2])>> : t \in a }

\* the number returned: a rational when no exponential is left in the sum
ENorm(a) ==
    IF a = {} THEN R(0)
    ELSE IF \A t \in a : IsZero(t[1]) THEN (CHOOSE t \in a : TRUE)[2]
    ELSE [terms |-> a]

(***************************************************************************)
(* sin                                                                     *)
(***************************************************************************)
\* the keyword arguments the sines are built from
SinKwargs ==
    { [vo |-> R(0), va |-> R(1), freq |-> R(1), td |-> R(0), theta |-> R(0), phi |-> R(0)],
      [vo |-> R(1), va |-> R(2), freq |-> <<1, 2>>, td |-> R(1), theta |-> R(1), phi |-> R(90)],
      [vo |-> R(2), va |-> R(0), freq |-> R(1), td |-> R(0), theta |-> <<1, 2>>, phi |-> R(0)] }

SinTimes == {NoneVal, <<-1, 1>>, <<0, 1>>, <<1, 2>>, <<1, 1>>, <<2, 1>>}

\* the default of the parameters td, theta and phi
sin_default == <<0, 1>>

\* sin.__init__(vo, va, freq, td=0., theta=0., phi=0.)
sin_init(vo, va, freq, td, theta, phi) ==
    [obj |-> [kind |-> "sin", vo |-> vo, va |-> va, freq |-> freq, td |-> td,
              theta |-> theta, phi |-> phi, _type |-> "V"],
     out |-> Return(NoneVal)]

\* vo + va * math.exp(damp) * math.sin(2 * pi * turns): the sine of 0 is 0,
\* every other sine is kept as the angle it is taken of
sin_term(vo, va, damp, turns) ==
    IF IsZero(va) \/ IsZero(turns) THEN vo
    ELSE [vo |-> vo, va |-> va, damp |-> damp, turns |-> turns]

\* sin.value(time); a time of None cannot be compared
sin_value(self, time) ==
    [obj |-> self,
     out |-> IF time = NoneVal THEN Raise("TypeError")
             ELSE IF RLt(time, self.td)
               THEN Return(sin_term(self.vo, self.va, R(0), RDiv(self.phi, R(360))))
             ELSE Return(sin_term(self.vo, self.va,
                                  RMul(RSub(self.td, time), self.theta),
                                  RAdd(RMul(self.freq, RSub(time, self.td)),
                                       RDiv(self.phi, R(360)))))]

ConstructSin ==
    /\ dev.kind = "none"
    /\ \E kw \in SinKwargs, given \in BOOLEAN :
         LET c == IF given THEN sin_init(kw.vo, kw.va, kw.freq, kw.td, kw.theta, kw.phi)
                  ELSE sin_init(kw.vo, kw.va, kw.freq, sin_default, sin_default, sin_default)
         IN  /\ dev' = c.obj
             /\ ret' = Called("sin.__init__", [kw |-> kw, given |-> given], c.out)

CallSinValue ==
    /\ dev.kind = "sin"
    /\ \E time \in SinTimes :
         LET c == sin_value(dev, time)
         IN  /\ dev' = c.obj
             /\ ret' = Called("sin.value", time, c.out)

(***************************************************************************)
(* exp                                                                     *)
(***************************************************************************)
\* the keyword arguments the exponentials are built from; the first is
\* (v1=0, v2=1, td1=0, tau1=1, td2=100, tau2=1), the third has its fall
\* delay before its rise delay, the last two have a time constant of 0
ExpKwargs ==
    { [v1 |-> R(0), v2 |-> R(1), td1 |-> R(0), tau1 |-> R(1), td2 |-> R(100), tau2 |-> R(1)],
      [v1 |-> R(1), v2 |-> R(3), td1 |-> R(1), tau1 |-> R(2), td2 |-> R(3), tau2 |-> <<1, 2>>],
      [v1 |-> R(0), v2 |-> R(1), td1 |-> R(5), tau1 |-> R(1), td2 |-> R(2), tau2 |-> R(1)],
      [v1 |-> R(0), v2 |-> R(2), td1 |-> R(0), tau1 |-> R(1), td2 |-> R(2), tau2 |-> R(0)],
      [v1 |-> R(1), v2 |-> R(0), td1 |-> R(1), tau1 |-> R(0), td2 |-> R(2), tau2 |-> R(1)] }

\* the times value() is called with: each delay, the times around it, None
ExpTimes ==
    {NoneVal} \cup { RAdd(td, R(s)) : td \in {kw.td1 : kw \in ExpKwargs} \cup {kw.td2 : kw \in ExpKwargs},
                                     s \in {-1, 0, 1} }

\* exp.__init__(v1, v2, td1, tau1, td2, tau2)
exp_init(v1, v2, td1, tau1, td2, tau2) ==
    [obj |-> [kind |-> "exp", v1 |-> v1, v2 |-> v2, td1 |-> td1, tau1 |-> tau1,
              td2 |-> td2, tau2 |-> tau2, _type |-> "V"],
     out |-> Return(NoneVal)]

\* 1 - math.exp(-1*(time - td)/tau)
exp_charge(time, td, tau) ==
    EAdd(EConst(R(1)), EScale(R(-1), math_exp(RDiv(RMul(R(-1), RSub(time, td)), tau))))

\* self.v1 + (self.v2 - self.v1) * (1 - math.exp(-1*(time - self.td1)/self.tau1))
exp_rise(self, time) ==
    EAdd(EConst(self.v1), EScale(RSub(self.v2, self.v1), exp_charge(time, self.td1, self.tau1)))

\* (self.v1 - self.v2) * (1 - math.exp(-1*(time - self.td2)/self.tau2))
exp_fall(self, time) ==
    EScale(RSub(self.v1, self.v2), exp_charge(time, self.td2, self.tau2))

\* an else branch in which the fall term takes the place of the rise term
exp_last_branch_replacing(self, time) == EAdd(EConst(self.v1), exp_fall(self, time))

\* the else branch of exp.value
exp_last_branch(self, time) == EAdd(exp_rise(self, time), exp_fall(self, time))

\* exp.value(time); a time of None cannot be compared, a time constant of
\* 0 cannot divide in the branches that divide by it
exp_value(self, time) ==
    [obj |-> self,
     out |-> IF time = NoneVal THEN Raise("TypeError")
             ELSE IF RLt(time, self.td1) THEN Return(self.v1)
             ELSE IF RLt(time, self.td2)
               THEN IF IsZero(self.tau1) THEN Raise("ZeroDivisionError")
                    ELSE Return(ENorm(exp_rise(self, time)))
             ELSE IF IsZero(self.tau1) \/ IsZero(self.tau2) THEN Raise("ZeroDivisionError")
             ELSE Return(ENorm(exp_last_branch(self, time)))]

ConstructExp ==
    /\ dev.kind = "none"
    /\ \E kw \in ExpKwargs :
         LET c == exp_init(kw.v1, kw.v2, kw.td1, kw.tau1, kw.td2, kw.tau2)
         IN  /\ dev' = c.obj
             /\ ret' = Called("exp.__init__", kw, c.out)

CallExpValue ==
    /\ dev.kind = "exp"
    /\ \E time \in ExpTimes :
         LET c == exp_value(dev, time)
         IN  /\ dev' = c.obj
             /\ ret' = Called("exp.value", time, c.out)

\* waveform.value(time), by the class of the waveform
waveform_value(w, time) ==
    IF w.kind = "pulse" THEN pulse_value(w, time)
    ELSE IF w.kind = "sin" THEN sin_value(w, time)
    ELSE exp_value(w, time)

(***************************************************************************)
(* ISource and VSource.  An AC amplitude is a complex number <<re, im>>    *)
(* with integer parts.  np.abs is the magnitude; np.angle is kept as the   *)
(* direction <<im, re>> in lowest terms, which determines atan2(im, re).   *)
(***************************************************************************)
AcValues == {<<0, 0>>, <<1, 0>>, <<0, 2>>, <<3, 4>>}
DcValues == {NoneVal, <<5, 1>>, <<0, 1>>, <<1, 2>>}
SourceTimes == {NoneVal, <<0, 1>>, <<1, 2>>, <<2, 1>>, <<7, 2>>}

\* the default of the parameter ac_value
DefaultAc == <<0, 0>>

\* the truth value Python gives a number: nonzero
Truthy(z) == z[1] # 0 \/ z[2] # 0

\* np.abs(ac_value)
np_abs(z) ==
    R(CHOOSE m \in 0..(Abs(z[1]) + Abs(z[2])) : m * m = z[1] * z[1] + z[2] * z[2])

\* np.angle(ac_value)
np_angle(z) ==
    LET g == GCD(Abs(z[1]), Abs(z[2]))
    IN  IF g = 0 THEN <<0, 0>> ELSE <<z[2] \div g, z[1] \div g>>

\* the waveforms a source is given, built by the constructors
Waveforms ==
    { pulse_init(kw.v1, kw.v2, kw.td, kw.tr, kw.pw, kw.tf, kw.per).obj :
        kw \in {k \in PulseKwargs : k.per = R(10)} }
    \cup { sin_init(kw.vo, kw.va, kw.freq, kw.td, kw.theta, kw.phi).obj :
             kw \in {k \in SinKwargs : k.phi = R(90)} }
    \cup { exp_init(kw.v1, kw.v2, kw.td1, kw.tau1, kw.td2, kw.tau2).obj :
             kw \in {k \in ExpKwargs : k.td2 = R(3)} }

\* an amplitude test that takes a zero amplitude for an amplitude given
Source_ac_present_always(ac_value) == TRUE

\* the test "if ac_value" of ISource.__init__ and VSource.__init__
Source_ac_present(ac_value) == Truthy(ac_value)

\* ISource.__init__(part_id, n1, n2, dc_value=None, ac_value=0)
ISource_init(part_id, n1, n2, dc_value, ac_value) ==
    [obj |-> [kind |-> "ISource", part_id |-> part_id, dc_value |-> dc_value,
              abs_ac |-> IF Source_ac_present(ac_value) THEN np_abs(ac_value) ELSE NoneVal,
              arg_ac |-> IF Source_ac_present(ac_value) THEN np_angle(ac_value) ELSE NoneVal,
              n1 |-> n1, n2 |-> n2, is_nonlinear |-> FALSE, is_symbolic |-> TRUE,
              is_timedependent |-> FALSE, _time_function |-> NoneVal],
     out |-> Return(NoneVal)]

\* VSource.__init__(part_id, n1, n2, dc_value, ac_value=0); dc_guess is
\* set only when dc_value is not None, and is None here otherwise
VSource_init(part_id, n1, n2, dc_value, ac_value) ==
    [obj |-> [kind |-> "VSource", part_id |-> part_id, dc_value |-> dc_value,
              n1 |-> n1, n2 |-> n2,
              abs_ac |-> IF Source_ac_present(ac_value) THEN np_abs(ac_value) ELSE NoneVal,
              arg_ac |-> IF Source_ac_present(ac_value) THEN np_angle(ac_value) ELSE NoneVal,
              is_nonlinear |-> FALSE, is_symbolic |-> TRUE,
              is_timedependent |-> FALSE, _time_function |-> NoneVal,
              dc_guess |-> IF dc_value # NoneVal THEN <<dc_value>> ELSE NoneVal],
     out |-> Return(NoneVal)]

\* the call self._time_function.value(time)
time_function_value(self, time) == waveform_value(self._time_function, time).out

\* an evaluation that takes a time of 0 for a time not supplied
ISource_I_falsy_time(self, time) ==
    [obj |-> self,
     out |-> IF \/ ~self.is_timedependent
                \/ self._time_function = NoneVal
                \/ ((time = NoneVal \/ time = R(0)) /\ self.dc_value # NoneVal)
             THEN Return(self.dc_value)
             ELSE time_function_value(self, time)]

\* ISource.I(time=None)
ISource_I(self, time) ==
    [obj |-> self,
     out |-> IF \/ ~self.is_timedependent
                \/ self._time_function = NoneVal
                \/ (time = NoneVal /\ self.dc_value # NoneVal)
             THEN Return(self.dc_value)
             ELSE time_function_value(self, time)]

\* VSource.V(time=None)
VSource_V(self, time) ==
    [obj |-> self,
     out |-> IF \/ ~self.is_timedependent
                \/ self._time_function = NoneVal
                \/ (time = NoneVal /\ self.dc_value # NoneVal)
             THEN Return(self.dc_value)
             ELSE time_function_value(self, time)]

IsSource(d) == d.kind \in {"ISource", "VSource"}

ConstructISource ==
    /\ dev.kind = "none"
    /\ \E n \in NodePairs, dc_value \in DcValues, ac_given \in BOOLEAN, ac_value \in AcValues :
         LET c == ISource_init("I1", n[1], n[2], dc_value,
                               IF ac_given THEN ac_value ELSE DefaultAc)
         IN  /\ ~ac_given => ac_value = DefaultAc
             /\ dev' = c.obj
             /\ ret' = Called("ISource.__init__",
                              [dc_value |-> dc_value, ac_given |-> ac_given,
                               ac_value |-> ac_value], c.out)

ConstructVSource ==
    /\ dev.kind = "none"
    /\ \E n \in NodePairs, dc_value \in DcValues, ac_given \in BOOLEAN, ac_value \in AcValues :
         LET c == VSource_init("V1", n[1], n[2], dc_value,
                               IF ac_given THEN ac_value ELSE DefaultAc)
         IN  /\ ~ac_given => ac_value = DefaultAc
             /\ dev' = c.obj
             /\ ret' = Called("VSource.__init__",
                              [dc_value |-> dc_value, ac_given |-> ac_given,
                               ac_value |-> ac_value], c.out)

\* the assignment source.is_timedependent = b
SetTimeDependent ==
    /\ IsSource(dev)
    /\ \E b \in BOOLEAN :
         /\ dev' = [dev EXCEPT !.is_timedependent = b]
         /\ ret' = Called("is_timedependent.setter", b, Return(NoneVal))

\* the assignment source._time_function = w, a waveform or None
SetTimeFunction ==
    /\ IsSource(dev)
    /\ \E w \in Waveforms \cup {NoneVal} :
         /\ dev' = [dev EXCEPT !._time_function = w]
         /\ ret' = Called("_time_function.setter", w, Return(NoneVal))

CallISourceI ==
    /\ dev.kind = "ISource"
    /\ \E time \in SourceTimes :
         LET c == ISource_I(dev, time)
         IN  /\ dev' = c.obj
             /\ ret' = Called("ISource.I", time, c.out)

CallVSourceV ==
    /\ dev.kind = "VSource"
    /\ \E time \in SourceTimes :
         LET c == VSource_V(dev, time)
         IN  /\ dev' = c.obj
             /\ ret' = Called("VSource.V", time, c.out)

(***************************************************************************)
(* Netlist lines of the sources                                            *)
(***************************************************************************)
\* pulse.__str__
pulse_str(self) ==
    << Tok("type", "pulse"), Tok("v1", PyStr(self.v1)), Tok("v2", PyStr(self.v2)),
       Tok("td", PyStr(self.td)), Tok("per", PyStr(self.per)), Tok("tr", PyStr(self.tr)),
       Tok("tf", PyStr(self.tf)), Tok("pw", PyStr(self.pw)) >>

\* sin.__str__
sin_str(self) ==
    << Tok("type", "sin"), Tok("vo", PyStr(self.vo)), Tok("va", PyStr(self.va)),
       Tok("freq", PyStr(self.freq)), Tok("theta", PyStr(self.theta)),
       Tok("td", PyStr(self.td)) >>

\* exp.__str__
exp_str(self) ==
    << Tok("type", "exp"), Tok("v1", PyStr(self.v1)), Tok("v2", PyStr(self.v2)),
       Tok("td1", PyStr(self.td1)), Tok("td2", PyStr(self.td2)),
       Tok("tau1", PyStr(self.tau1)), Tok("tau2", PyStr(self.tau2)) >>

\* str(waveform), by the class of the waveform
waveform_str(w) ==
    IF w.kind = "pulse" THEN pulse_str(w)
    ELSE IF w.kind = "sin" THEN sin_str(w)
    ELSE exp_str(w)

\* str(self._time_function)
time_function_str(self) ==
    IF self._time_function = NoneVal THEN <<Tok("", "None")>>
    ELSE waveform_str(self._time_function)

\* ISource.get_netlist_elem_line(nodes_dict)
ISource_get_netlist_elem_line(self, nd) ==
    [obj |-> self,
     out |-> Return(
        <<Tok("", self.part_id), Tok("", nd[self.n1]), Tok("", nd[self.n2])>>
        \o (IF self.dc_value # NoneVal
              THEN <<Tok("type", "idc"), Tok("value", PyStr(self.dc_value))>> ELSE <<>>)
        \o (IF self.abs_ac # NoneVal
              THEN <<Tok("iac", PyStr(self.abs_ac)), Tok("arg", <<"atan2", self.arg_ac>>)>>
              ELSE <<>>)
        \o (IF self.is_timedependent THEN time_function_str(self) ELSE <<>>))]

\* VSource.get_netlist_elem_line(nodes_dict)
VSource_get_netlist_elem_line(self, nd) ==
    [obj |-> self,
     out |-> Return(
        <<Tok("", self.part_id), Tok("", nd[self.n1]), Tok("", nd[self.n2])>>
        \o (IF self.dc_value # NoneVal
              THEN <<Tok("type", "vdc"), Tok("value", PyStr(self.dc_value))>> ELSE <<>>)
        \o (IF self.abs_ac # NoneVal THEN <<Tok("vac", PyStr(self.abs_ac))>> ELSE <<>>)
        \o (IF self.is_timedependent THEN time_function_str(self) ELSE <<>>))]

CallISourceLine ==
    /\ dev.kind = "ISource"
    /\ LET c == ISource_get_netlist_elem_line(dev, nodes_dict)
       IN  /\ dev' = c.obj
           /\ ret' = Called("get_netlist_elem_line", nodes_dict, c.out)

CallVSourceLine ==
    /\ dev.kind = "VSource"
    /\ LET c == VSource_get_netlist_elem_line(dev, nodes_dict)
       IN  /\ dev' = c.obj
           /\ ret' = Called("get_netlist_elem_line", nodes_dict, c.out)

(***************************************************************************)
(* Component: the methods the elements inherit                             *)
(***************************************************************************)
\* the attribute self.value: the property of a Resistor, the field of an
\* element that sets it, missing otherwise
Attr_value(self) ==
    IF self.kind = "Resistor" THEN Return(self._value)
    ELSE IF "value" \in DOMAIN self THEN Return(self.value)
    ELSE Raise("AttributeError")

\* Component.g(v)
Component_g(self, v) ==
    LET value == Attr_value(self)
    IN  [obj |-> self,
         out |-> IF value.exc # "none" THEN value ELSE Reciprocal(value.val)]

\* Component.i(v)
Component_i(self, v) == [obj |-> self, out |-> Return(R(0))]

\* Component.get_netlist_elem_line(nodes_dict)
Component_get_netlist_elem_line(self, nd) ==
    LET value == Attr_value(self)
    IN  [obj |-> self,
         out |-> IF value.exc # "none" THEN value
                 ELSE Return(<<Tok("", self.part_id), Tok("", nd[self.n1]),
                               Tok("", nd[self.n2]), Tok("", FormatG(value.val))>>)]

\* the elements of the model that inherit get_netlist_elem_line
CallComponentLine ==
    /\ dev.kind \in {"Resistor", "Capacitor", "Inductor", "HVSource"}
    /\ LET c == Component_get_netlist_elem_line(dev, nodes_dict)
       IN  /\ dev' = c.obj
           /\ ret' = Called("get_netlist_elem_line", nodes_dict, c.out)

(***************************************************************************)
(* EVSource, FISource, HVSource                                            *)
(***************************************************************************)
AlphaValues == {<<2, 1>>, <<-1, 2>>, <<1234567, 1>>, <<1234568, 1>>}
SensePairs == {<<2, 0>>, <<0, 2>>}
SourceIds == {"V1", "V2"}

\* EVSource.__init__(part_id, n1, n2, value, sn1, sn2)
EVSource_init(part_id, n1, n2, value, sn1, sn2) ==
    [obj |-> [kind |-> "EVSource", part_id |-> part_id, n1 |-> n1, n2 |-> n2,
              alpha |-> value, sn1 |-> sn1, sn2 |-> sn2,
              is_nonlinear |-> FALSE, is_symbolic |-> TRUE],
     out |-> Return(NoneVal)]

\* EVSource.get_netlist_elem_line(nodes_dict)
EVSource_get_netlist_elem_line(self, nd) ==
    [obj |-> self,
     out |-> Return(<<Tok("", self.part_id), Tok("", nd[self.n1]), Tok("", nd[self.n2]),
                      Tok("", nd[self.sn1]), Tok("", nd[self.sn2]),
                      Tok("", FormatG(self.alpha))>>)]

\* FISource.__init__(part_id, n1, n2, value, source_id)
FISource_init(part_id, n1, n2, value, source_id) ==
    [obj |-> [kind |-> "FISource", part_id |-> part_id, n1 |-> n1, n2 |-> n2,
              source_id |-> source_id, alpha |-> value,
              is_nonlinear |-> FALSE, is_symbolic |-> TRUE],
     out |-> Return(NoneVal)]

\* FISource.get_netlist_elem_line(nodes_dict)
FISource_get_netlist_elem_line(self, nd) ==
    [obj |-> self,
     out |-> Return(<<Tok("", self.part_id), Tok("", nd[self.n1]), Tok("", nd[self.n2]),
                      Tok("", self.source_id), Tok("", FormatG(self.alpha))>>)]

\* HVSource.__init__(part_id, n1, n2, value, source_id): prints
\* "HVSource not implemented. TODO" and returns the object
HVSource_init(part_id, n1, n2, value, source_id) ==
    [obj |-> [kind |-> "HVSource", part_id |-> part_id, n1 |-> n1, n2 |-> n2,
              alpha |-> value, source_id |-> source_id,
              is_nonlinear |-> FALSE, is_symbolic |-> TRUE],
     out |-> Return(NoneVal)]

\* HVSource.__str__
HVSource_str(self) ==
    [obj |-> self, out |-> Raise("Exception: HVSource not implemented. TODO")]

ConstructEVSource ==
    /\ dev.kind = "none"
    /\ \E n \in NodePairs, sn \in SensePairs, value \in AlphaValues :
         LET c == EVSource_init("E1", n[1], n[2], value, sn[1], sn[2])
         IN  /\ dev' = c.obj
             /\ ret' = Called("EVSource.__init__", value, c.out)

CallEVSourceLine ==
    /\ dev.kind = "EVSource"
    /\ LET c == EVSource_get_netlist_elem_line(dev, nodes_dict)
       IN  /\ dev' = c.obj
           /\ ret' = Called("get_netlist_elem_line", nodes_dict, c.out)

ConstructFISource ==
    /\ dev.kind = "none"
    /\ \E n \in NodePairs, source_id \in SourceIds, value \in AlphaValues :
         LET c == FISource_init("F1", n[1], n[2], value, source_id)
         IN  /\ dev' = c.obj
             /\ ret' = Called("FISource.__init__", value, c.out)

CallFISourceLine ==
    /\ dev.kind = "FISource"
    /\ LET c == FISource_get_netlist_elem_line(dev, nodes_dict)
       IN  /\ dev' = c.obj
           /\ ret' = Called("get_netlist_elem_line", nodes_dict, c.out)

ConstructHVSource ==
    /\ dev.kind = "none"
    /\ \E n \in NodePairs, source_id \in SourceIds, value \in AlphaValues :
         LET c == HVSource_init("H1", n[1], n[2], value, source_id)
         IN  /\ dev' = c.obj
             /\ ret' = Called("HVSource.__init__", value, c.out)

CallHVSourceStr ==
    /\ dev.kind = "HVSource"
    /\ LET c == HVSource_str(dev)
       IN  /\ dev' = c.obj
           /\ ret' = Called("HVSource.__str__", NoneVal, c.out)

CallHVSourceI ==
    /\ dev.kind = "HVSource"
    /\ \E v \in Voltages :
         LET c == Component_i(dev, v)
         IN  /\ dev' = c.obj
             /\ ret' = Called("HVSource.i", v, c.out)

CallHVSourceG ==
    /\ dev.kind = "HVSource"
    /\ \E v \in Voltages :
         LET c == Component_g(dev, v)
         IN  /\ dev' = c.obj
             /\ ret' = Called("HVSource.g", v, c.out)

(***************************************************************************)
(* Inductor: it defines __init__ only and inherits the rest of Component   *)
(***************************************************************************)
InductorValues == {<<1, 1>>, <<1, 2>>}
InductorICs == {NoneVal, <<1, 1>>}

\* Inductor.__init__(part_id, n1, n2, value, ic)
Inductor_init(part_id, n1, n2, value, ic) ==
    [obj |-> [kind |-> "Inductor", value |-> value, n1 |-> n1, n2 |-> n2,
              part_id |-> part_id, ic |-> ic, coupling_devices |-> <<>>,
              is_nonlinear |-> FALSE, is_symbolic |-> TRUE],
     out |-> Return(NoneVal)]

ConstructInductor ==
    /\ dev.kind = "none"
    /\ \E n \in NodePairs, value \in InductorValues, ic \in InductorICs :
         LET c == Inductor_init("L1", n[1], n[2], value, ic)
         IN  /\ dev' = c.obj
             /\ ret' = Called("Inductor.__init__", <<value, ic>>, c.out)

\* inductor.i(v): the method found on the class is Component.i
CallInductorI ==
    /\ dev.kind = "Inductor"
    /\ \E v \in Voltages :
         LET c == Component_i(dev, v)
         IN  /\ dev' = c.obj
             /\ ret' = Called("Inductor.i", v, c.out)

\* inductor.g(v): the method found on the class is Component.g
CallInductorG ==
    /\ dev.kind = "Inductor"
    /\ \E v \in Voltages :
         LET c == Component_g(dev, v)
         IN  /\ dev' = c.obj
             /\ ret' = Called("Inductor.g", v, c.out)

(***************************************************************************)
(* pulse built from positional arguments                                   *)
(***************************************************************************)
\* the labels of time_fun_specs['pulse'], by 'pos': PULSE(V1 V2 TD TR TF PW PER)
time_fun_specs_pulse == <<"v1", "v2", "td", "tr", "tf", "pw", "per">>

\* the argument tuples of a caller that follows time_fun_specs['pulse']
PulseArgs ==
    { [k \in DOMAIN time_fun_specs_pulse |-> kw[time_fun_specs_pulse[k]]] : kw \in PulseKwargs }

\* pulse(*args): the arguments bound in the order of the signature
ConstructPulsePositional ==
    /\ dev.kind = "none"
    /\ \E args \in PulseArgs :
         LET c == pulse_init(args[1], args[2], args[3], args[4], args[5], args[6], args[7])
         IN  /\ dev' = c.obj
             /\ ret' = Called("pulse.__init__(*args)", args, c.out)

(***************************************************************************)
(* The flag is_symbolic, "meant to be toggled by the user at will"         *)
(***************************************************************************)
\* the assignment elem.is_symbolic = b
SetSymbolic ==
    /\ "is_symbolic" \in DOMAIN dev
    /\ \E b \in BOOLEAN :
         /\ dev' = [dev EXCEPT !.is_symbolic = b]
         /\ ret' = Called("is_symbolic.setter", b, Return(NoneVal))

Init ==
    /\ dev = NoDevice
    /\ ret = Called("none", NoneVal, Return(NoneVal))

Next ==
    \/ ConstructResistor
    \/ WriteResistorValue
    \/ WriteResistorG
    \/ ReadResistorG
    \/ ReadResistorValue
    \/ CallResistorI
    \/ ConstructCapacitor
    \/ CallCapacitorG
    \/ CallCapacitorI
    \/ CallCapacitorD
    \/ ConstructInductorCoupling
    \/ CallGetOtherInductor
    \/ ConstructPulse
    \/ CallPulseValue
    \/ ConstructISource
    \/ ConstructVSource
    \/ SetTimeDependent
    \/ SetTimeFunction
    \/ CallISourceI
    \/ CallVSourceV
    \/ CallISourceLine
    \/ CallVSourceLine
    \/ CallComponentLine
    \/ ConstructEVSource
    \/ CallEVSourceLine
    \/ ConstructFISource
    \/ CallFISourceLine
    \/ ConstructHVSource
    \/ CallHVSourceStr
    \/ CallHVSourceI
    \/ CallHVSourceG
    \/ ConstructInductor
    \/ CallInductorI
    \/ CallInductorG
    \/ ConstructPulsePositional
    \/ ConstructSin
    \/ CallSinValue
    \/ ConstructExp
    \/ CallExpValue
    \/ SetSymbolic

Spec == Init /\ [][Next]_vars

(***************************************************************************)
(* Claims                                                                  *)
(***************************************************************************)

\* C1: a Resistor's stored pair is synchronized: whenever both fields are
\* nonzero (the case after construction and after any nonzero write),
\* g = 1/value and value = 1/g; a nonzero write of value x leaves value = x
\* and g = 1/x; a nonzero write of g y leaves g = y and value = 1/y; the
\* getters return the stored fields; and i(v, time) returns 0.
ResistorPairSynchronized ==
    dev.kind = "Resistor" =>
      /\ (~IsZero(dev._value) /\ ~IsZero(dev._g)) =>
            /\ dev._g = RDiv(R(1), dev._value)
            /\ dev._value = RDiv(R(1), dev._g)
      /\ (ret.op = "Resistor.__init__" /\ RLt(R(0), ret.arg)) =>
            /\ ret.exc = "none"
            /\ dev._value = ret.arg
            /\ dev._g = RDiv(R(1), ret.arg)
      /\ (ret.op = "Resistor.value.setter" /\ ~IsZero(ret.arg)) =>
            /\ ret.exc = "none"
            /\ dev._value = ret.arg
            /\ dev._g = RDiv(R(1), ret.arg)
      /\ (ret.op = "Resistor.g.setter" /\ ~IsZero(ret.arg)) =>
            /\ ret.exc = "none"
            /\ dev._g = ret.arg
            /\ dev._value = RDiv(R(1), ret.arg)
      /\ ret.op = "Resistor.g" => ret.val = dev._g /\ ret.exc = "none"
      /\ ret.op = "Resistor.value" => ret.val = dev._value /\ ret.exc = "none"
      /\ ret.op = "Resistor.i" => ret.val = R(0) /\ ret.exc = "none"

\* a write of g = 3/2 has happened and value now reads 2/3
ResistorWrittenG ==
    /\ dev.kind = "Resistor"
    /\ ret.op = "Resistor.g.setter"
    /\ ret.arg = <<3, 2>>
    /\ dev._value = <<2, 3>>

\* C8: constructing a Resistor with value 0 raises and yields no object,
\* and writing 0 to the value of an existing Resistor raises; neither
\* returns normally.
ZeroResistanceRaises ==
    /\ (ret.op = "Resistor.__init__" /\ IsZero(ret.arg)) =>
          ret.exc = "ZeroDivisionError" /\ dev.kind = "none"
    /\ (ret.op = "Resistor.value.setter" /\ IsZero(ret.arg)) =>
          ret.exc = "ZeroDivisionError"

\* a write of 0 to the value of an existing Resistor has raised
ZeroValueWritten ==
    /\ dev.kind = "Resistor"
    /\ ret.op = "Resistor.value.setter"
    /\ IsZero(ret.arg)
    /\ ret.exc = "ZeroDivisionError"

PulsePeriodic ==
    (dev.kind = "pulse" /\ ret.op = "pulse.value" /\ RLt(R(0), dev.per)) =>
      /\ pulse_value(dev, RAdd(ret.arg, dev.per)).out.val = ret.val
      /\ pulse_wrap(dev, ret.arg)
           = RSub(ret.arg, RMul(dev.per, R(Floor(RDiv(ret.arg, dev.per)))))
      /\ ~RLt(pulse_wrap(dev, ret.arg), R(0))
      /\ RLt(pulse_wrap(dev, ret.arg), dev.per)

\* C4: a pulse built from keyword parameters stores td as max(td, 0), and
\* at a time w in [0, per) its value is v1 before td, the rising ramp
\* v1 + (v2-v1)*(w-td)/tr up to td+tr, v2 up to td+tr+pw, the falling ramp
\* v2 + (v1-v2)*(w-td-tr-pw)/tf up to td+tr+pw+tf, and v1 after that; the
\* pulse (0, 5, 0, 1, 1, 2, 10) gives 0, 2.5, 5, 5, 2.5, 0 at the times
\* 0, 0.5, 1.5, 3, 3.5, 4.5.
PulseSegments ==
    dev.kind = "pulse" =>
      /\ ret.op = "pulse.__init__" =>
            /\ dev.td = (IF RLt(ret.arg.td, R(0)) THEN R(0) ELSE ret.arg.td)
            /\ dev.v1 = ret.arg.v1 /\ dev.v2 = ret.arg.v2 /\ dev.tr = ret.arg.tr
            /\ dev.tf = ret.arg.tf /\ dev.pw = ret.arg.pw /\ dev.per = ret.arg.per
      /\ (ret.op = "pulse.value" /\ ~RLt(ret.arg, R(0)) /\ RLt(ret.arg, dev.per)) =>
            LET w == ret.arg
                t1 == dev.td
                t2 == RAdd(t1, dev.tr)
                t3 == RAdd(t2, dev.pw)
                t4 == RAdd(t3, dev.tf)
            IN  /\ ret.exc = "none"
                /\ ret.val =
                     IF RLt(w, t1) THEN dev.v1
                     ELSE IF RLt(w, t2)
                       THEN RAdd(dev.v1, RDiv(RMul(RSub(dev.v2, dev.v1), RSub(w, t1)), dev.tr))
                     ELSE IF RLt(w, t3) THEN dev.v2
                     ELSE IF RLt(w, t4)
                       THEN RAdd(dev.v2, RDiv(RMul(RSub(dev.v1, dev.v2), RSub(w, t3)), dev.tf))
                     ELSE dev.v1
      /\ (ret.op = "pulse.value" /\ dev.v1 = R(0) /\ dev.v2 = R(5) /\ dev.td = R(0)
            /\ dev.tr = R(1) /\ dev.tf = R(1) /\ dev.pw = R(2) /\ dev.per = R(10)) =>
            /\ ret.arg = R(0) => ret.val = R(0)
            /\ ret.arg = <<1, 2>> => ret.val = <<5, 2>>
            /\ ret.arg = <<3, 2>> => ret.val = R(5)
            /\ ret.arg = R(3) => ret.val = R(5)
            /\ ret.arg = <<7, 2>> => ret.val = <<5, 2>>
            /\ ret.arg = <<9, 2>> => ret.val = R(0)

\* the pulse (0, 5, 0, 1, 1, 2, 10) was evaluated on its falling ramp, at 3.5
PulseOnFallingRamp ==
    /\ dev.kind = "pulse"
    /\ dev.v2 = R(5) /\ dev.tf = R(1) /\ dev.pw = R(2) /\ dev.per = R(10)
    /\ ret.op = "pulse.value"
    /\ ret.arg = <<7, 2>>
    /\ ret.val = <<5, 2>>

\* C5 as stated: every operation on an HVSource (construction, conversion
\* to string, get_netlist_elem_line, i, g) raises the "not implemented"
\* error and returns nothing.
HVSourceAlwaysFails ==
    (\/ ret.op \in {"HVSource.__init__", "HVSource.__str__", "HVSource.i", "HVSource.g"}
     \/ (dev.kind = "HVSource" /\ ret.op = "get_netlist_elem_line")) =>
      /\ ret.exc = "Exception: HVSource not implemented. TODO"
      /\ ret.val = NoneVal

\* C6 as stated: a source built with no AC amplitude stores magnitude and
\* phase as None, and a source built with an AC amplitude of zero magnitude
\* stores a present magnitude equal to 0.
SourceZeroAcDistinguished ==
    (IsSource(dev) /\ ret.op \in {"ISource.__init__", "VSource.__init__"}) =>
      /\ ~ret.arg.ac_given => (dev.abs_ac = NoneVal /\ dev.arg_ac = NoneVal)
      /\ (ret.arg.ac_given /\ np_abs(ret.arg.ac_value) = R(0)) =>
            (dev.abs_ac # NoneVal /\ dev.abs_ac = R(0))

\* C6, amended: a source built with no AC amplitude, or with an AC
\* amplitude of zero, stores magnitude and phase as None; a source built
\* with a nonzero amplitude stores its magnitude and phase; a stored
\* magnitude is never 0; and the serialized line carries an AC clause
\* exactly when the magnitude is present.
SourceAcAbsentWhenZero ==
    IsSource(dev) =>
      /\ (ret.op \in {"ISource.__init__", "VSource.__init__"}) =>
            IF ~ret.arg.ac_given \/ np_abs(ret.arg.ac_value) = R(0)
              THEN dev.abs_ac = NoneVal /\ dev.arg_ac = NoneVal
              ELSE /\ dev.abs_ac = np_abs(ret.arg.ac_value)
                   /\ dev.arg_ac = np_angle(ret.arg.ac_value)
      /\ (dev.abs_ac = NoneVal) <=> (dev.arg_ac = NoneVal)
      /\ dev.abs_ac # NoneVal => RLt(R(0), dev.abs_ac)
      /\ ret.op = "get_netlist_elem_line" =>
            /\ ret.exc = "none"
            /\ (HasKey(ret.val, "iac") \/ HasKey(ret.val, "vac")) <=> dev.abs_ac # NoneVal
            /\ HasKey(ret.val, "iac") => dev.kind = "ISource"
            /\ HasKey(ret.val, "vac") => dev.kind = "VSource"

\* a source was built with an AC amplitude given as zero and stores no magnitude
SourceBuiltWithZeroAc ==
    /\ IsSource(dev)
    /\ ret.op \in {"ISource.__init__", "VSource.__init__"}
    /\ ret.arg.ac_given
    /\ ret.arg.ac_value = <<0, 0>>
    /\ dev.abs_ac = NoneVal

\* C9 as stated: the line of a Resistor, a DC-only independent source, an
\* EVSource or an FISource gives back part_id, the node names and the
\* number (value, dc_value, alpha) exactly, and no other number of the
\* variant prints as the same text.
SerializationLossless ==
    (ret.op = "get_netlist_elem_line" /\ ret.exc = "none") =>
      LET line == ret.val
          head == /\ line[1][2] = dev.part_id
                  /\ line[2][2] = nodes_dict[dev.n1]
                  /\ line[3][2] = nodes_dict[dev.n2]
      IN  /\ dev.kind = "Resistor" =>
                /\ head
                /\ ParseG(line[4][2]) = dev._value
                /\ \A v \in ResNumbers \cup LongNumbers :
                      FormatG(v) = line[4][2] => v = dev._value
          /\ dev.kind = "EVSource" =>
                /\ head
                /\ line[4][2] = nodes_dict[dev.sn1]
                /\ line[5][2] = nodes_dict[dev.sn2]
                /\ ParseG(line[6][2]) = dev.alpha
                /\ \A v \in AlphaValues : FormatG(v) = line[6][2] => v = dev.alpha
          /\ dev.kind = "FISource" =>
                /\ head
                /\ line[4][2] = dev.source_id
                /\ ParseG(line[5][2]) = dev.alpha
                /\ \A v \in AlphaValues : FormatG(v) = line[5][2] => v = dev.alpha
          /\ (IsSource(dev) /\ dev.dc_value # NoneVal /\ dev.abs_ac = NoneVal
                /\ ~dev.is_timedependent) =>
                /\ head
                /\ Len(line) = 5
                /\ line[5][1] = "value"
                /\ ParseStr(line[5][2]) = dev.dc_value

\* C7 as stated: get_other_inductor(sel) returns L2 when sel equals L1
\* ignoring case, else L1 when sel equals L2 ignoring case, else raises and
\* returns nothing; and the identifier returned never matches sel.
OtherInductorNeverMatches ==
    (dev.kind = "InductorCoupling" /\ ret.op = "get_other_inductor") =>
      /\ IF Upper(ret.arg) = Upper(dev.L1)
            THEN ret.exc = "none" /\ ret.val = dev.L2
         ELSE IF Upper(ret.arg) = Upper(dev.L2)
            THEN ret.exc = "none" /\ ret.val = dev.L1
         ELSE ret.exc # "none" /\ ret.val = NoneVal
      /\ ret.exc = "none" => Upper(ret.val) # Upper(ret.arg)

\* C7, amended: the same selection rule; the identifier returned does not
\* match sel provided L1 and L2 differ ignoring case.
OtherInductorSelected ==
    (dev.kind = "InductorCoupling" /\ ret.op = "get_other_inductor") =>
      /\ IF Upper(ret.arg) = Upper(dev.L1)
            THEN ret.exc = "none" /\ ret.val = dev.L2
         ELSE IF Upper(ret.arg) = Upper(dev.L2)
            THEN ret.exc = "none" /\ ret.val = dev.L1
         ELSE ret.exc # "none" /\ ret.val = NoneVal
      /\ (ret.exc = "none" /\ Upper(dev.L1) # Upper(dev.L2)) =>
            Upper(ret.val) # Upper(ret.arg)

\* the coupling of La and Lb was asked for the partner of lA and answered Lb
OtherInductorFoundIgnoringCase ==
    /\ dev.kind = "InductorCoupling"
    /\ dev.L1 = <<"L", "a">>
    /\ dev.L2 = <<"L", "b">>
    /\ ret.op = "get_other_inductor"
    /\ ret.arg = <<"l", "A">>
    /\ ret.val = <<"L", "b">>

\* C10: every call of a Capacitor's i, g or d returns without raising, i
\* and g return 0 and d returns value, and the call leaves the Capacitor
\* (value and ic included) as it was.
CapacitorStamps ==
    [][(dev.kind = "Capacitor" /\ ret'.op \in {"Capacitor.i", "Capacitor.g", "Capacitor.d"}) =>
         /\ dev' = dev
         /\ ret'.exc = "none"
         /\ ret'.op = "Capacitor.i" => ret'.val = R(0)
         /\ ret'.op = "Capacitor.g" => ret'.val = R(0)
         /\ ret'.op = "Capacitor.d" => ret'.val = dev.value]_vars

\* d was called with a nonzero port voltage on a Capacitor with an initial
\* condition and returned the capacitance
CapacitorDCalled ==
    /\ dev.kind = "Capacitor"
    /\ ret.op = "Capacitor.d"
    /\ ret.arg[1] = <<3, 2>>
    /\ dev.ic = <<2, 1>>
    /\ ret.val = dev.value

\* C13 as stated: an Inductor holds value, ic and an empty coupling_devices
\* list and exposes no stamp operator: neither i nor g can be evaluated on
\* an Inductor, the call finds no such method.
InductorHasNoStamps ==
    /\ ret.op = "Inductor.__init__" => (dev.kind = "Inductor" /\ dev.coupling_devices = <<>>)
    /\ ret.op \in {"Inductor.i", "Inductor.g"} =>
         (ret.exc = "AttributeError" /\ ret.val = NoneVal)

\* C14 as stated: the positional parameters of pulse are, in order, v1, v2,
\* td, tr, tf, pw, per, the order of time_fun_specs: the fifth positional
\* argument is stored as tf and the sixth as pw (td as max(td, 0)).
PulsePositionalOrder ==
    (dev.kind = "pulse" /\ ret.op = "pulse.__init__(*args)") =>
      /\ \A k \in DOMAIN time_fun_specs_pulse :
           time_fun_specs_pulse[k] # "td" => dev[time_fun_specs_pulse[k]] = ret.arg[k]
      /\ dev.tf = ret.arg[5]
      /\ dev.pw = ret.arg[6]

\* C15 as stated: a write of value or g to a Resistor that raises leaves
\* the Resistor as it was, and conductance = 1/value still holds after it.
RejectedWriteLeavesResistor ==
    [][(dev.kind = "Resistor"
         /\ ret'.op \in {"Resistor.value.setter", "Resistor.g.setter"}
         /\ ret'.exc # "none") =>
         /\ dev' = dev
         /\ ~IsZero(dev'._value)
         /\ dev'._g = RDiv(R(1), dev'._value)]_vars

\* C12 as stated, for time constants other than 0: exp.value(time) returns
\* v1 for time < td1, the rise term for td1 <= time < td2, and the rise
\* term plus the fall term for every time >= td2.
ExpBranchesByTimeAlone ==
    (dev.kind = "exp" /\ ret.op = "exp.value" /\ ret.arg # NoneVal
       /\ ~IsZero(dev.tau1) /\ ~IsZero(dev.tau2)) =>
      LET time == ret.arg
          charge(td, tau) == EAdd(EConst(R(1)), EScale(R(-1), math_exp(RDiv(RSub(td, time), tau))))
          rise == EAdd(EConst(dev.v1), EScale(RSub(dev.v2, dev.v1), charge(dev.td1, dev.tau1)))
          fall == EScale(RSub(dev.v1, dev.v2), charge(dev.td2, dev.tau2))
      IN  /\ ret.exc = "none"
          /\ RLt(time, dev.td1) => ret.val = dev.v1
          /\ (~RLt(time, dev.td1) /\ RLt(time, dev.td2)) => ret.val = ENorm(rise)
          /\ ~RLt(time, dev.td2) => ret.val = ENorm(EAdd(rise, fall))

\* C12: exp.value(time) returns v1 for time < td1; the rise term
\* v1 + (v2-v1)*(1 - e^(-(time-td1)/tau1)) for td1 <= time < td2; the rise
\* term plus the fall term (v1-v2)*(1 - e^(-(time-td2)/tau2)) for a time
\* that is >= td2 and >= td1; a time constant of 0 in a term the branch
\* computes raises ZeroDivisionError; at time == td2 the fall term is 0;
\* with (0, 1, 0, 1, 100, 1) value(0) == 0.
ExpBranches ==
    (dev.kind = "exp" /\ ret.op = "exp.value" /\ ret.arg # NoneVal) =>
      LET time == ret.arg
          charge(td, tau) == EAdd(EConst(R(1)), EScale(R(-1), math_exp(RDiv(RSub(td, time), tau))))
          rise == EAdd(EConst(dev.v1), EScale(RSub(dev.v2, dev.v1), charge(dev.td1, dev.tau1)))
          fall == EScale(RSub(dev.v1, dev.v2), charge(dev.td2, dev.tau2))
          before == RLt(time, dev.td1)
          rising == ~before /\ RLt(time, dev.td2)
          falling == ~before /\ ~RLt(time, dev.td2)
      IN  /\ before => (ret.val = dev.v1 /\ ret.exc = "none")
          /\ (rising /\ ~IsZero(dev.tau1)) => (ret.val = ENorm(rise) /\ ret.exc = "none")
          /\ (falling /\ ~IsZero(dev.tau1) /\ ~IsZero(dev.tau2)) =>
                /\ ret.val = ENorm(EAdd(rise, fall))
                /\ ret.exc = "none"
                /\ time = dev.td2 => (fall = {} /\ ret.val = ENorm(rise))
          /\ ((rising /\ IsZero(dev.tau1)) \/ (falling /\ (IsZero(dev.tau1) \/ IsZero(dev.tau2)))) =>
                (ret.val = NoneVal /\ ret.exc = "ZeroDivisionError")
          /\ (dev = exp_init(R(0), R(1), R(0), R(1), R(100), R(1)).obj /\ time = R(0)) =>
                ret.val = R(0)

\* exp(v1=1, v2=3, td1=1, tau1=2, td2=3, tau2=0.5).value(4) returned
\* 1 - 2*e^(-3/2) + 2*e^(-2): both exponentials are in the sum
ExpFallAddedToRise ==
    /\ dev.kind = "exp"
    /\ dev.td2 = R(3)
    /\ ret.op = "exp.value"
    /\ ret.arg = R(4)
    /\ ret.exc = "none"
    /\ ret.val = [terms |-> {<<R(0), R(1)>>, <<Rat(-3, 2), R(-2)>>, <<R(-2), R(2)>>}]

\* C16 as stated: the line of an ISource or VSource ends with the str() of
\* the attached waveform when is_timedependent is true and a waveform is
\* attached, and carries no waveform text (no type=pulse, type=sin or
\* type=exp and no text of a missing waveform) in any other case or place.
SourceLineWaveformClause ==
    (IsSource(dev) /\ ret.op = "get_netlist_elem_line") =>
      LET line == ret.val
          clause == IF dev.is_timedependent /\ dev._time_function # NoneVal
                    THEN waveform_str(dev._time_function) ELSE <<>>
          head == Len(line) - Len(clause)
      IN  /\ ret.exc = "none"
          /\ head >= 0
          /\ SubSeq(line, head + 1, Len(line)) = clause
          /\ \A k \in 1..head :
               /\ ~(line[k][1] = "" /\ line[k][2] = "None")
               /\ ~(line[k][1] = "type" /\ line[k][2] \in {"pulse", "sin", "exp"})

====
